---- MODULE Spec2Model ----
(***************************************************************************)
(* A model of stack_tracer.py: the IndentedStdout output interceptor and   *)
(* the StackTracer decorator (depth counter, sys.stdout swap, log file).   *)
(*                                                                         *)
(* Text is a sequence of one-character strings where the characters        *)
(* matter (indentation, intercepted output) and a sequence of tokens where *)
(* only the pieces matter (the body of a trace line).                      *)
(*                                                                         *)
(* One step of Spec is one uninterrupted stretch of the wrapper on a       *)
(* single call stack: Call runs lines 71-93 up to the call of the target,  *)
(* Return and Raise run lines 97-125 from the moment the target finishes.  *)
(* Between the two the target may write to sys.stdout and call wrapped     *)
(* functions.  What a target does with an exception that reaches it from   *)
(* a nested call is its own choice, so after a nested call fails the       *)
(* target is free to return or to raise.                                   *)
(*                                                                         *)
(* SpecW drives IndentedStdout.write alone, at a fixed depth.              *)
(***************************************************************************)
EXTENDS Integers, Sequences, FiniteSets, TLC

\* ------------------------------------------------------------------ bounds
MaxCalls  == 2      \* wrapped calls started in one behaviour
MaxStack  == 2      \* wrapped calls open at the same time
MaxWrites == 1      \* sys.stdout.write calls made by running code

\* ------------------------------------------------------------ the universe
Tracers   == {"A", "B"}
Single    == {"A"}
Names     == {"f"}
NL        == "\n"
Alphabet  == {"x", NL}

\* values a target can take or return: an ordinary one, one whose __repr__
\* raises, and one whose __repr__ returns text the sinks' encoder rejects
\* (a lone surrogate); Unenc also stands for that text itself
BadRepr   == "<repr raises>"
Unenc     == "<lone surrogate>"
Args      == {"3", BadRepr, Unenc}
Values    == {"6", BadRepr, Unenc}

NoFile    == "None"
GoodPath  == "trace.log"
BadPath   == "/nodir/trace.log"
Paths     == {NoFile, GoodPath, BadPath}

None      == "None"
Open      == "open"

\* exceptions: cls is the root the except clause tests, kind is type(e).__name__
NoExc       == [cls |-> "none", kind |-> "none", msg |-> "none"]
ValueErr    == [cls |-> "Exception", kind |-> "ValueError", msg |-> "bad"]
ValueErrU   == [cls |-> "Exception", kind |-> "ValueError", msg |-> Unenc]
KbdInt      == [cls |-> "BaseException", kind |-> "KeyboardInterrupt", msg |-> ""]
ReprErr     == [cls |-> "Exception", kind |-> "RuntimeError", msg |-> "repr failed"]
EncodeErr   == [cls |-> "Exception", kind |-> "UnicodeEncodeError", msg |-> "surrogates not allowed"]
OpenErr     == [cls |-> "Exception", kind |-> "FileNotFoundError", msg |-> "No such file or directory"]
Raisable    == {ValueErr, ValueErrU, KbdInt}

\* sinks that can be bound to sys.stdout
Console        == [cls |-> "TextIOWrapper", owner |-> "sys"]
Interceptor(t) == [cls |-> "IndentedStdout", owner |-> t]

VARIABLES
    cfg,            \* per tracer: show_timing, show_input, show_output, _output_file_path
    depth,          \* per tracer: self.depth
    _file_handle,   \* per tracer: self._file_handle (None or an open handle)
    original_stdout,\* per tracer: self.original_stdout
    at_line_start,  \* per tracer: self.interceptor.at_line_start
    sys_stdout,     \* the process-wide sys.stdout binding
    console,        \* everything the real console received, in order
    files,          \* per tracer: content of the file at _output_file_path
    stack,          \* open wrapper frames, innermost last
    trace,          \* history: every line _log delivered, with its call and
                    \* destination (kept where one thread runs)
    last,           \* history: the wrapper invocation that completed most recently
    ncalls,         \* history: wrapped calls started
    written,        \* history: the fragments passed to sys.stdout.write, in order
    thr,            \* per thread: where it is in the wrapper, its own open calls
    race,           \* history: whether two threads' calls overlapped, open()
                    \* calls, whether a thread logged a CALL line out of depth
    fobj            \* per tracer: the file object self._file_handle refers to

vars == <<cfg, depth, _file_handle, original_stdout, at_line_start, sys_stdout,
          console, files, stack, trace, last, ncalls, written, thr, race,
          fobj>>

\* ---------------------------------------------------------------- helpers
RECURSIVE Rep(_, _)
\* Python's  s * n  (empty for n <= 0)
Rep(s, n) == IF n <= 0 THEN <<>> ELSE s \o Rep(s, n - 1)

Unit == <<"|", " ", " ", " ">>
Body == <<"|", " ">>

RECURSIVE SeqsUpTo(_, _)
SeqsUpTo(S, n) ==
    IF n = 0 THEN {<<>>}
    ELSE LET shorter == SeqsUpTo(S, n - 1)
         IN  shorter \cup {Append(s, c) : s \in {q \in shorter : Len(q) = n - 1}, c \in S}

\* the texts running code writes between and inside wrapped calls
Fragments == {<<>>, <<"x">>, <<NL>>, <<"x", NL>>}

\* a trace line: the f-string of lines 90, 110 and 115, kept in its pieces
Line(indent, mark, name, rest) ==
    [indent |-> indent, mark |-> mark, name |-> name, rest |-> rest]
NoLine == Line(<<>>, "", "", <<>>)

\* one character delivered to the console by a write
Ch(c) == [src |-> "write", ch |-> c, tr |-> "none", id |-> 0, line |-> NoLine]
\* one trace line (message + "\n") delivered to the console by _log
Ln(t, id, line) == [src |-> "log", ch |-> "", tr |-> t, id |-> id, line |-> line]

RECURSIVE Chars(_)
Chars(s) == IF s = <<>> THEN <<>> ELSE <<Ch(Head(s))>> \o Chars(Tail(s))

\* ------------------------------------------------- IndentedStdout (7-39)
RECURSIVE WriteLoop(_, _, _)
\* the for loop of write: what reaches self.original, and the final flag
WriteLoop(text, indent, als) ==
    IF text = <<>> THEN [out |-> <<>>, als |-> als]
    ELSE LET c    == Head(text)
             pre  == IF als THEN indent ELSE <<>>
             rest == WriteLoop(Tail(text), indent, c = NL)
         IN  [out |-> pre \o <<c>> \o rest.out, als |-> rest.als]

\* a write that forgets the flag between calls: every call starts a line
IndentedStdout_write_FlagPerCall(text, d, als) ==
    IF text = <<>> THEN [out |-> <<>>, als |-> als]
    ELSE WriteLoop(text, Rep(Unit, d) \o Body, TRUE)

\* IndentedStdout.write(text) with self.tracer.depth = d, self.at_line_start = als
IndentedStdout_write(text, d, als) ==
    IF text = <<>> THEN [out |-> <<>>, als |-> als]
    ELSE WriteLoop(text, Rep(Unit, d) \o Body, als)

\* ------------------------------------------------------ the mutable state
\* The wrapper runs several statements in one step; they are composed as
\* functions on a record of the mutable fields.
St == [depth |-> depth, handle |-> _file_handle, stdout |-> sys_stdout,
       als |-> at_line_start, console |-> console, files |-> files,
       trace |-> trace, fobj |-> fobj]

Outcome(kind, val, exc) == [kind |-> kind, val |-> val, exc |-> exc]
NoOutcome   == Outcome("none", "", NoExc)
Returns(v)  == Outcome("return", v, NoExc)
Raises(e)   == Outcome("raise", "", e)

\* ------------------------------------------------ StackTracer._log (56-66)
\* the sinks encode on write: a message holding a lone surrogate raises
\* UnicodeEncodeError before anything is appended
Encodable(line) == \A i \in 1..Len(line.rest) : line.rest[i] # Unenc

\* what the history records of a delivered line: the call it belongs to, the
\* outermost call open on the stack (top), how many calls of tracer t are
\* open on the stack (open) and self.depth, all at the time of the _log call
Logged(S, t, id, line, dest) ==
    [tr |-> t, id |-> id, line |-> line, dest |-> dest,
     top |-> IF stack = <<>> THEN id ELSE stack[1].id,
     open |-> Cardinality({i \in DOMAIN stack : stack[i].tr = t}),
     depth |-> S.depth[t]]

_log(S, t, id, line) ==
    IF ~Encodable(line) THEN [S |-> S, ok |-> FALSE]
    ELSE IF S.handle[t] # None
    THEN [S |-> [S EXCEPT !.files[t] = Append(@, line),
                          !.trace = Append(@, Logged(S, t, id, line, "file"))],
          ok |-> TRUE]
    ELSE [S |-> [S EXCEPT !.console = Append(@, Ln(t, id, line)),
                          !.trace = Append(@, Logged(S, t, id, line, "console"))],
          ok |-> TRUE]

\* ------------------------------------- StackTracer.__call__.wrapper (70-125)
\* repr(x) of line 82 / 107: the text, or the exception __repr__ raises
ReprOk(x) == x # BadRepr

\* a setup that hijacks sys.stdout whether or not a log file is open
Setup_HijackInFileMode(S, t) ==
    LET S1 == IF cfg[t]._output_file_path # NoFile /\ S.handle[t] = None
              THEN [S EXCEPT !.handle[t] = Open, !.files[t] = <<>>]
              ELSE S
    IN  IF S1.stdout.cls # "IndentedStdout"
        THEN [S1 EXCEPT !.stdout = Interceptor(t)]
        ELSE S1

\* lines 72-78: open the log file, install the interceptor
Setup(S, t) ==
    LET S1 == IF cfg[t]._output_file_path # NoFile /\ S.handle[t] = None
              THEN [S EXCEPT !.handle[t] = Open, !.files[t] = <<>>]
              ELSE S
    IN  IF S1.stdout.cls # "IndentedStdout" /\ S1.handle[t] = None
        THEN [S1 EXCEPT !.stdout = Interceptor(t)]
        ELSE S1

\* line 74 raises when the path cannot be opened for writing
OpenFails(S, t) ==
    cfg[t]._output_file_path = BadPath /\ S.handle[t] = None

\* line 81
IndentOf(S, t) == Rep(Unit, S.depth[t])

\* lines 82-90: the CALL message
CallLine(t, indent, name, a) ==
    Line(indent, "|--> CALL ", name,
         IF cfg[t].show_input THEN <<"(", a, ")">> ELSE <<>>)

\* lines 100-110: the RETURN message
ReturnLine(t, indent, name, v) ==
    Line(indent, "|<-- RETURN ", name,
         (IF cfg[t].show_output THEN <<": ", v>> ELSE <<>>)
         \o (IF cfg[t].show_timing THEN <<" [Time: ", "ms]">> ELSE <<>>))

\* line 115: the ERROR message
ErrorLine(indent, name, e) ==
    Line(indent, "|<-- ERROR ", name, <<": ", e.kind, ": ", e.msg>>)

\* lines 71-93, up to the call of the target.  Yields the new state, the
\* exception that left the wrapper before the try block (NoExc if none) and
\* the locals the rest of the wrapper uses.
Entry(S, t, name, a, id) ==
    LET prev == S.stdout
        ret(S2, e, ind) == [S |-> S2, exc |-> e,
                            frame |-> [tr |-> t, name |-> name, id |-> id,
                                       indent |-> ind, previous_stdout |-> prev,
                                       depth0 |-> S.depth[t], handle0 |-> S.handle[t]]]
    IN  IF OpenFails(S, t) THEN ret(S, OpenErr, <<>>)
        ELSE LET S1  == Setup(S, t)
                 ind == IndentOf(S1, t)
             IN  IF ~ReprOk(a) THEN ret(S1, ReprErr, ind)
                 ELSE LET L == _log(S1, t, id, CallLine(t, ind, name, a))
                      IN  IF ~L.ok THEN ret(L.S, EncodeErr, ind)
                          ELSE ret([L.S EXCEPT !.depth[t] = @ + 1], NoExc, ind)

\* lines 113-116: the except clause, entered with an Exception e
ExceptClause(S, fr, e) ==
    LET S1 == [S EXCEPT !.depth[fr.tr] = @ - 1]
        L  == _log(S1, fr.tr, fr.id, ErrorLine(fr.indent, fr.name, e))
    IN  IF L.ok THEN [S |-> L.S, result |-> Raises(e)]
        ELSE [S |-> L.S, result |-> Raises(EncodeErr)]

\* lines 99-111: the rest of the try block once the target returned v
TryRest(S, fr, v) ==
    IF cfg[fr.tr].show_output /\ ~ReprOk(v)
    THEN ExceptClause(S, fr, ReprErr)
    ELSE LET S1 == [S EXCEPT !.depth[fr.tr] = @ - 1]
             L  == _log(S1, fr.tr, fr.id, ReturnLine(fr.tr, fr.indent, fr.name, v))
         IN  IF L.ok THEN [S |-> L.S, result |-> Returns(v)]
             ELSE ExceptClause(L.S, fr, EncodeErr)

\* lines 118-125: the finally clause
Finally(S, t) ==
    IF S.depth[t] = 0
    THEN [S EXCEPT !.stdout = original_stdout[t], !.handle[t] = None]
    ELSE S

\* lines 95-125: what the wrapper does once the target has finished with
\* outcome o (a returned value or a raised exception)
Exit(S, fr, o) ==
    LET r == IF o.kind = "return" THEN TryRest(S, fr, o.val)
             ELSE IF o.exc.cls = "Exception" THEN ExceptClause(S, fr, o.exc)
             ELSE [S |-> S, result |-> o]
    IN  [S |-> Finally(r.S, fr.tr), result |-> r.result]

\* ------------------------------------------------------------ transitions
\* the threads of control that call wrapped functions
Threads == {"T1", "T2"}
\* a thread outside the wrapper, with no call open
IdleThread == [pc |-> "run", lg |-> "59", own |-> <<>>, exc |-> NoExc, obj |-> 0]
NoRace == [overlap |-> FALSE, opens |-> 0, miscounted |-> FALSE]
\* a text file object as open() returns it: id tells the objects apart (the
\* call that opened it), pos is its offset in the file, in characters, pend
\* the lines written to it and not flushed yet
NoObj == [id |-> 0, pos |-> 0, pend |-> <<>>]

NoFrame == [tr |-> "none", name |-> "", id |-> 0, indent |-> <<>>,
            previous_stdout |-> Console, depth0 |-> 0, handle0 |-> None]

\* the record kept of a wrapper invocation that has just completed
Done(phase, fr, target, result, S) ==
    [phase |-> phase, fr |-> fr, target |-> target, result |-> result,
     depth1 |-> S.depth[fr.tr], stdout1 |-> S.stdout, handle1 |-> S.handle[fr.tr],
     nested |-> Len(stack)]

\* the constructor's arguments: every sink path, with the three show_ flags
\* all on (the defaults) or all off
Configs == {[show_timing |-> b, show_input |-> b, show_output |-> b,
             _output_file_path |-> p] : b \in BOOLEAN, p \in Paths}
DefaultCfg == [show_timing |-> TRUE, show_input |-> TRUE, show_output |-> TRUE,
               _output_file_path |-> NoFile]

\* StackTracer.__init__ (43-54), run for every tracer before any call
InitCommon ==
    /\ depth = [t \in Tracers |-> 0]
    /\ _file_handle = [t \in Tracers |-> None]
    /\ original_stdout = [t \in Tracers |-> Console]
    /\ at_line_start = [t \in Tracers |-> TRUE]
    /\ sys_stdout = Console
    /\ console = <<>>
    /\ files = [t \in Tracers |-> <<>>]
    /\ stack = <<>>
    /\ trace = <<>>
    /\ last = Done("none", NoFrame, NoOutcome, NoOutcome,
                   [depth |-> [t \in {"none"} |-> 0], stdout |-> Console,
                    handle |-> [t \in {"none"} |-> None]])
    /\ ncalls = 0
    /\ written = <<>>
    /\ thr = [k \in Threads |-> IdleThread]
    /\ race = NoRace
    /\ fobj = [t \in Tracers |-> NoObj]

Init ==
    /\ cfg \in [Tracers -> Configs]
    /\ \A t \in Tracers \ Single : cfg[t] = DefaultCfg
    /\ InitCommon

Store(S) ==
    /\ depth' = S.depth
    /\ _file_handle' = S.handle
    /\ sys_stdout' = S.stdout
    /\ at_line_start' = S.als
    /\ console' = S.console
    /\ files' = S.files
    /\ trace' = S.trace
    /\ fobj' = S.fobj

\* a caller (the host program, or the target of the innermost open call)
\* invokes a callable wrapped by tracer t: lines 71-97
Call(t, name, a) ==
    /\ ncalls < MaxCalls
    /\ Len(stack) < MaxStack
    /\ LET E == Entry(St, t, name, a, ncalls + 1)
       IN  /\ Store(E.S)
           /\ IF E.exc = NoExc
              THEN stack' = Append(stack, E.frame) /\ last' = last
              ELSE stack' = stack
                   /\ last' = Done("entry", E.frame, NoOutcome, Raises(E.exc), E.S)
    /\ ncalls' = ncalls + 1
    /\ UNCHANGED <<cfg, original_stdout, written, thr, race>>

\* the target of the innermost open call finishes with outcome o and the
\* wrapper runs to its end: lines 97-125
Finish(o) ==
    /\ stack # <<>>
    /\ LET fr == stack[Len(stack)]
           X  == Exit(St, fr, o)
       IN  /\ Store(X.S)
           /\ last' = Done("exit", fr, o, X.result, X.S)
    /\ stack' = SubSeq(stack, 1, Len(stack) - 1)
    /\ UNCHANGED <<cfg, original_stdout, ncalls, written, thr, race>>

Return == \E v \in Values : Finish(Returns(v))
Raise  == \E e \in Raisable : Finish(Raises(e))

\* running code (a target, or the host program between calls) writes text
\* to whatever sys.stdout is bound to
StdoutWrite(text) ==
    /\ IF sys_stdout.cls = "IndentedStdout"
       THEN LET t == sys_stdout.owner
                w == IndentedStdout_write(text, depth[t], at_line_start[t])
            IN  /\ console' = console \o Chars(w.out)
                /\ at_line_start' = [at_line_start EXCEPT ![t] = w.als]
       ELSE /\ console' = console \o Chars(text)
            /\ at_line_start' = at_line_start
    /\ written' = Append(written, text)
    /\ UNCHANGED <<cfg, depth, _file_handle, original_stdout, sys_stdout, files,
                   stack, trace, last, ncalls, thr, race, fobj>>

Write(text) == Len(written) < MaxWrites /\ StdoutWrite(text)

Next ==
    \/ \E t \in Single, name \in Names, a \in Args : Call(t, name, a)
    \/ Return
    \/ Raise
    \/ \E text \in Fragments : Write(text)

Spec == Init /\ [][Next]_vars

\* ------------------------------------------------- two tracers, one thread
\* Tracer A traces to the console; tracer B is configured either way.  Both
\* are constructed before any call, so both hold the console as
\* original_stdout.  Wrapped functions of either tracer call one another.
Init2 ==
    /\ cfg \in [Tracers -> {c \in Configs : c.show_input /\ c._output_file_path # BadPath}]
    /\ \A t \in Single : cfg[t] = DefaultCfg
    /\ InitCommon

Next2 ==
    \/ \E t \in Tracers, name \in Names, a \in Args : Call(t, name, a)
    \/ Return
    \/ Raise
    \/ \E text \in Fragments : Write(text)

Spec2 == Init2 /\ [][Next2]_vars

\* ------------------------------------------- one tracer, two threads
\* One StackTracer, in console or file mode, whose wrapped function is
\* called from two threads.  A step is one statement of wrapper or of _log,
\* and a call is a step of its own (open() returns before its result is
\* stored, close() is entered before the object is closed): the interpreter
\* can switch threads after any call and inside close().  Targets return an
\* ordinary value and every message is encodable; the except clause is
\* entered when _log finds the file closed, closing or gone.
\*
\* The file is kept character by character.  write() leaves the text in the
\* file object; flush(), close() and the disposal of an object nobody refers
\* to any more put it into the file at the object's own offset, over what
\* is there and after a run of NUL characters when the file is shorter.
MaxCallsT == 2      \* wrapped calls the threads make between them

Shared == "A"       \* the tracer the threads share
Closed == "closed"  \* self._file_handle refers to a file object already closed
Closing == "closing" \* ... to a file object a thread is inside close() of
ClosedErr == [cls |-> "Exception", kind |-> "ValueError",
              msg |-> "I/O operation on closed file."]
\* flush() of a file object that another thread is closing: the text passed
\* the closed test of the text layer and found the buffer below it closed
\* or released
RaceErrs == {[cls |-> "Exception", kind |-> "ValueError", msg |-> m] :
                m \in {"write to closed file",
                       "PyMemoryView_FromBuffer(): info->buf must not be NULL"}}
\* self._file_handle is None when its method (write, flush) is looked up
AttrErr(method) ==
    [cls |-> "Exception", kind |-> "AttributeError",
     msg |-> IF method = "write" THEN "'NoneType' object has no attribute 'write'"
             ELSE "'NoneType' object has no attribute 'flush'"]

\* characters in one piece of a trace line (names, arguments and results
\* are one character each; the piece "ms]" carries the duration, four
\* characters of "%.2f" under 10 ms, in front of it)
TokW(tok) ==
    CASE tok = "|--> CALL " -> 10
      [] tok = "|<-- RETURN " -> 12
      [] tok = "|<-- ERROR " -> 11
      [] tok = ": " -> 2
      [] tok = " [Time: " -> 8
      [] tok = "ms]" -> 7
      [] tok = "ValueError" -> 10
      [] tok = "AttributeError" -> 14
      [] tok = "I/O operation on closed file." -> 29
      [] tok = "'NoneType' object has no attribute 'write'" -> 42
      [] tok = "'NoneType' object has no attribute 'flush'" -> 42
      [] tok = "write to closed file" -> 20
      [] tok = "PyMemoryView_FromBuffer(): info->buf must not be NULL" -> 53
      [] OTHER -> 1

RECURSIVE SumW(_)
SumW(toks) == IF toks = <<>> THEN 0 ELSE TokW(Head(toks)) + SumW(Tail(toks))

\* characters of message + "\n"
LineW(line) == Len(line.indent) + TokW(line.mark) + TokW(line.name) + SumW(line.rest) + 1

\* The content of the file is a sequence of segments: a whole line (the
\* Line record), characters from..to of a line, or a run of NUL characters.
IsNul(seg)  == "nul" \in DOMAIN seg
IsPart(seg) == "line" \in DOMAIN seg
SegW(seg) ==
    IF IsNul(seg) THEN seg.nul
    ELSE IF IsPart(seg) THEN seg.to - seg.from + 1
    ELSE LineW(seg)

\* characters a..b of a segment (1 <= a <= b <= SegW(seg))
Slice(seg, a, b) ==
    IF IsNul(seg) THEN [nul |-> b - a + 1]
    ELSE IF IsPart(seg)
    THEN [line |-> seg.line, from |-> seg.from + a - 1, to |-> seg.from + b - 1]
    ELSE IF a = 1 /\ b = LineW(seg) THEN seg
    ELSE [line |-> seg, from |-> a, to |-> b]

RECURSIVE TextW(_)
TextW(D) == IF D = <<>> THEN 0 ELSE SegW(Head(D)) + TextW(Tail(D))

RECURSIVE Take(_, _)
\* the first n characters of D, NUL characters making up for a shorter D
Take(D, n) ==
    IF n = 0 THEN <<>>
    ELSE IF D = <<>> THEN <<[nul |-> n]>>
    ELSE LET w == SegW(Head(D))
         IN  IF w > n THEN <<Slice(Head(D), 1, n)>>
             ELSE IF IsNul(Head(D)) /\ Tail(D) = <<>> THEN <<[nul |-> n]>>
             ELSE <<Head(D)>> \o Take(Tail(D), n - w)

RECURSIVE Drop(_, _)
\* D without its first n characters
Drop(D, n) ==
    IF D = <<>> \/ n = 0 THEN D
    ELSE LET w == SegW(Head(D))
         IN  IF w > n THEN <<Slice(Head(D), n + 1, w)>> \o Tail(D)
             ELSE Drop(Tail(D), n - w)

\* the file after the lines of text are written at offset pos
WriteAt(D, pos, text) ==
    IF text = <<>> THEN D
    ELSE Take(D, pos) \o text \o Drop(D, pos + TextW(text))

\* the text pending in the file object of self._file_handle goes to the file
Flushed(S) ==
    [S EXCEPT !.files[Shared] = WriteAt(@, S.fobj[Shared].pos, S.fobj[Shared].pend),
              !.fobj[Shared].pos = @ + TextW(S.fobj[Shared].pend),
              !.fobj[Shared].pend = <<>>]

\* self._file_handle is about to be rebound: nothing else refers to the
\* object it holds (unless a thread is inside its close()), and an open
\* object is flushed and closed when it is disposed of
Dropped(S) == IF S.handle[Shared] = Open THEN Flushed(S) ELSE S

ConfigsT == {[DefaultCfg EXCEPT !._output_file_path = p] : p \in {NoFile, GoodPath}}

InitT ==
    /\ cfg \in [Tracers -> ConfigsT]
    /\ \A t \in Tracers \ {Shared} : cfg[t] = DefaultCfg
    /\ InitCommon

\* thread k has a wrapper invocation in progress; Cur(k) is the innermost
InCall(k) == thr[k].own # <<>>
Cur(k) == thr[k].own[Len(thr[k].own)]
\* thread k is about to run the statement at line pc of its innermost call
At(k, pc) == InCall(k) /\ thr[k].pc = pc

\* the step of thread k that leaves the state as S delivers (to the file
\* object or to the console) a CALL line indented for a depth other than the
\* number of calls open around it on the thread's own stack
Miscounts(k, S) ==
    /\ At(k, "90")
    /\ thr[k].lg \in {"60", "65"}
    /\ S # St
    /\ Cur(k).indent # Rep(Unit, Len(thr[k].own) - 1)

\* history: this step of thread k, which leaves the state as S, is taken
\* while another thread has a call in progress; n counts the open() calls
\* made since no call was in progress
Raced(k, S, n) ==
    [overlap |-> race.overlap \/ \E j \in Threads \ {k} : InCall(j),
     opens |-> n,
     miscounted |-> race.miscounted \/ Miscounts(k, S)]

\* a statement of thread k that leaves the shared state as S and the thread as th
Stmt(k, S, th) ==
    /\ Store(S)
    /\ thr' = [thr EXCEPT ![k] = th]
    /\ race' = Raced(k, S, race.opens)
    /\ UNCHANGED <<cfg, original_stdout, stack, last, ncalls, written>>

\* thread k goes on to the statement at line pc (lg is the line of _log it
\* is at while that statement is a _log call)
Goto(k, pc) == [thr[k] EXCEPT !.pc = pc, !.lg = "59"]

\* the wrapper invocation of thread k is over (it returned, or an exception
\* left it): control is back in the code that called it
Leave(k, S) ==
    /\ Store(S)
    /\ thr' = [thr EXCEPT ![k].own = SubSeq(@, 1, Len(@) - 1),
                          ![k].pc = "run", ![k].lg = "59", ![k].exc = NoExc]
    /\ race' = Raced(k, S, IF Len(thr[k].own) = 1 /\ \A j \in Threads \ {k} : ~InCall(j)
                           THEN 0 ELSE race.opens)
    /\ UNCHANGED <<cfg, original_stdout, stack, last, ncalls, written>>

\* code running on thread k (the thread's body, or the target of its
\* innermost open call) calls the wrapped function: line 72
Line72(k, name, a) ==
    /\ thr[k].pc = "run"
    /\ ncalls < MaxCallsT
    /\ Store(St)
    /\ thr' = [thr EXCEPT ![k].pc = "73",
                          ![k].own = Append(@,
                              [tr |-> Shared, name |-> name, id |-> ncalls + 1,
                               indent |-> <<>>, previous_stdout |-> sys_stdout,
                               arg |-> a])]
    /\ ncalls' = ncalls + 1
    /\ race' = Raced(k, St, race.opens)
    /\ UNCHANGED <<cfg, original_stdout, stack, last, written>>

\* line 73: the test guarding open()
Line73(k) ==
    /\ At(k, "73")
    /\ Stmt(k, St, Goto(k, IF cfg[Shared]._output_file_path # NoFile
                               /\ _file_handle[Shared] = None
                           THEN "74" ELSE "77"))

\* line 74, the call: open(path, 'w') truncates the file and returns a new
\* file object
Line74(k) ==
    /\ At(k, "74")
    /\ LET S == [St EXCEPT !.files[Shared] = <<>>]
       IN  Store(S) /\ race' = Raced(k, S, race.opens + 1)
    /\ thr' = [thr EXCEPT ![k] = Goto(k, "74=")]
    /\ UNCHANGED <<cfg, original_stdout, stack, last, ncalls, written>>

\* line 74, the assignment: the new object, at offset 0, replaces whatever
\* self._file_handle holds
Line74_Store(k) ==
    /\ At(k, "74=")
    /\ Stmt(k, [Dropped(St) EXCEPT
                   !.handle[Shared] = Open,
                   !.fobj[Shared] = [id |-> Cur(k).id, pos |-> 0, pend |-> <<>>]],
            Goto(k, "77"))

\* line 77: the test guarding the installation (a file object, open or
\* closed, is truthy)
Line77(k) ==
    /\ At(k, "77")
    /\ Stmt(k, St, Goto(k, IF sys_stdout.cls # "IndentedStdout"
                               /\ _file_handle[Shared] = None
                           THEN "78" ELSE "81"))

\* line 78
Line78(k) ==
    /\ At(k, "78")
    /\ Stmt(k, [St EXCEPT !.stdout = Interceptor(Shared)], Goto(k, "81"))

\* line 81: indent is computed from self.depth as it is now
Line81(k) ==
    /\ At(k, "81")
    /\ Stmt(k, St, [Goto(k, "90") EXCEPT
                        !.own[Len(thr[k].own)].indent = IndentOf(St, Shared)])

\* one statement of the _log call thread k is in, at line thr[k].lg:
\* the test of line 59, write (60) and flush (61) on whatever
\* self._file_handle is when the statement runs, or the console write
\* (65-66); e is what flush raises if it meets a close() in progress.
\* Yields the state, the line of _log to go on with, whether _log is over
\* and the exception it raised.
LogT(k, line, e) ==
    LET h == _file_handle[Shared]
        go(S, lg)  == [S |-> S, lg |-> lg, over |-> FALSE, exc |-> NoExc]
        end(S, x)  == [S |-> S, lg |-> "59", over |-> TRUE, exc |-> x]
    IN  CASE thr[k].lg = "59" -> go(St, IF h # None THEN "60" ELSE "65")
          [] thr[k].lg = "60" ->
                IF h = None THEN end(St, AttrErr("write"))
                ELSE IF h = Closed THEN end(St, ClosedErr)
                ELSE go([St EXCEPT !.fobj[Shared].pend = Append(@, line)], "61")
          [] thr[k].lg = "61" ->
                IF h = None THEN end(St, AttrErr("flush"))
                ELSE IF h = Closed THEN end(St, ClosedErr)
                ELSE IF h = Open THEN end(Flushed(St), NoExc)
                ELSE IF fobj[Shared].pend = <<>> THEN end(St, NoExc)
                ELSE end([St EXCEPT !.fobj[Shared].pend = <<>>], e)
          [] thr[k].lg = "65" ->
                end([St EXCEPT !.console = Append(@, Ln(Shared, Cur(k).id, line))],
                    NoExc)

\* lines 82-90, one statement of the _log call at a time: the CALL line; a
\* failure leaves the wrapper at once
Line90(k) ==
    /\ At(k, "90")
    /\ \E e \in RaceErrs :
       LET f == Cur(k)
           L == LogT(k, CallLine(Shared, f.indent, f.name, f.arg), e)
       IN  IF ~L.over THEN Stmt(k, L.S, [thr[k] EXCEPT !.lg = L.lg])
           ELSE IF L.exc = NoExc THEN Stmt(k, L.S, Goto(k, "92"))
           ELSE Leave(k, L.S)

\* an increment that counts every call twice
Line92_Twice(k) ==
    /\ At(k, "92")
    /\ Stmt(k, [St EXCEPT !.depth[Shared] = @ + 2], Goto(k, "run"))

\* line 92, after which the target runs (line 97)
Line92(k) ==
    /\ At(k, "92")
    /\ Stmt(k, [St EXCEPT !.depth[Shared] = @ + 1], Goto(k, "run"))

\* line 97: the target of thread k's innermost call returns
Line97_Return(k) ==
    /\ At(k, "run")
    /\ Stmt(k, St, Goto(k, "109"))

\* line 109
Line109(k) ==
    /\ At(k, "109")
    /\ Stmt(k, [St EXCEPT !.depth[Shared] = @ - 1], Goto(k, "110"))

\* lines 100-111, one statement of the _log call at a time: the RETURN
\* line; a failure enters the except clause
Line110(k) ==
    /\ At(k, "110")
    /\ \E e \in RaceErrs :
       LET f == Cur(k)
           L == LogT(k, ReturnLine(Shared, f.indent, f.name, "6"), e)
       IN  Stmt(k, L.S, IF ~L.over THEN [thr[k] EXCEPT !.lg = L.lg]
                        ELSE IF L.exc = NoExc THEN Goto(k, "121")
                        ELSE [Goto(k, "114") EXCEPT !.exc = L.exc])

\* line 114
Line114(k) ==
    /\ At(k, "114")
    /\ Stmt(k, [St EXCEPT !.depth[Shared] = @ - 1], Goto(k, "115"))

\* lines 115-116, one statement of the _log call at a time: the ERROR
\* line, then the exception is raised again; an exception of _log replaces it
Line115(k) ==
    /\ At(k, "115")
    /\ \E e \in RaceErrs :
       LET f == Cur(k)
           L == LogT(k, ErrorLine(f.indent, f.name, thr[k].exc), e)
       IN  Stmt(k, L.S, IF ~L.over THEN [thr[k] EXCEPT !.lg = L.lg]
                        ELSE IF L.exc = NoExc THEN Goto(k, "121")
                        ELSE [Goto(k, "121") EXCEPT !.exc = L.exc])

\* line 121: the test guarding the teardown
Line121(k) ==
    /\ At(k, "121")
    /\ IF depth[Shared] = 0 THEN Stmt(k, St, Goto(k, "122")) ELSE Leave(k, St)

\* line 122
Line122(k) ==
    /\ At(k, "122")
    /\ Stmt(k, [St EXCEPT !.stdout = original_stdout[Shared]], Goto(k, "123"))

\* line 123
Line123(k) ==
    /\ At(k, "123")
    /\ IF _file_handle[Shared] # None THEN Stmt(k, St, Goto(k, "124")) ELSE Leave(k, St)

\* line 124, close() is entered on the object self._file_handle refers to
\* now: None has no close and the AttributeError leaves the wrapper; close()
\* of a closed object does nothing; close() of an open one first flushes
\* it.  A thread that meets another thread's close() of the same object
\* flushes as line 61 does, and what flush raises leaves the wrapper.
Line124(k) ==
    /\ At(k, "124")
    /\ LET h == _file_handle[Shared]
           in_close == [Goto(k, "124e") EXCEPT !.obj = fobj[Shared].id]
       IN  IF h = None THEN Leave(k, St)
           ELSE IF h = Closed THEN Stmt(k, St, Goto(k, "125"))
           ELSE IF h = Open
           THEN Stmt(k, [Flushed(St) EXCEPT !.handle[Shared] = Closing], in_close)
           ELSE IF fobj[Shared].pend = <<>> THEN Stmt(k, St, in_close)
           ELSE Leave(k, [St EXCEPT !.fobj[Shared].pend = <<>>])

\* line 124, close() returns: the object is closed, and text written to it
\* since close() flushed it is discarded.  self._file_handle may hold
\* another object by now.
Line124_End(k) ==
    /\ At(k, "124e")
    /\ Stmt(k, IF _file_handle[Shared] = Closing /\ fobj[Shared].id = thr[k].obj
               THEN [St EXCEPT !.handle[Shared] = Closed, !.fobj[Shared] = NoObj]
               ELSE St,
            [Goto(k, "125") EXCEPT !.obj = 0])

\* line 125: the object self._file_handle held is let go of
Line125(k) ==
    /\ At(k, "125")
    /\ Leave(k, [Dropped(St) EXCEPT !.handle[Shared] = None, !.fobj[Shared] = NoObj])

NextT ==
    \/ \E k \in Threads, name \in Names : Line72(k, name, "3")
    \/ \E k \in Threads : Line73(k)
    \/ \E k \in Threads : Line74(k)
    \/ \E k \in Threads : Line74_Store(k)
    \/ \E k \in Threads : Line77(k)
    \/ \E k \in Threads : Line78(k)
    \/ \E k \in Threads : Line81(k)
    \/ \E k \in Threads : Line90(k)
    \/ \E k \in Threads : Line92(k)
    \/ \E k \in Threads : Line97_Return(k)
    \/ \E k \in Threads : Line109(k)
    \/ \E k \in Threads : Line110(k)
    \/ \E k \in Threads : Line114(k)
    \/ \E k \in Threads : Line115(k)
    \/ \E k \in Threads : Line121(k)
    \/ \E k \in Threads : Line122(k)
    \/ \E k \in Threads : Line123(k)
    \/ \E k \in Threads : Line124(k)
    \/ \E k \in Threads : Line124_End(k)
    \/ \E k \in Threads : Line125(k)

SpecT == InitT /\ [][NextT]_vars

\* ------------------------------------------ the interceptor on its own
\* An IndentedStdout whose tracer stays at depth d, written to in fragments.
MaxDepthW  == 2     \* depths tried
MaxWritesW == 3     \* write calls
MaxFragW   == 2     \* characters in one fragment

FragmentsW == SeqsUpTo(Alphabet, MaxFragW)

InitW ==
    /\ cfg = [t \in Tracers |-> DefaultCfg]
    /\ \E d \in 0..MaxDepthW : depth = [t \in Tracers |-> IF t \in Single THEN d ELSE 0]
    /\ _file_handle = [t \in Tracers |-> None]
    /\ original_stdout = [t \in Tracers |-> Console]
    /\ at_line_start = [t \in Tracers |-> TRUE]
    /\ sys_stdout \in {Interceptor(t) : t \in Single}
    /\ console = <<>>
    /\ files = [t \in Tracers |-> <<>>]
    /\ stack = <<>>
    /\ trace = <<>>
    /\ last = Done("none", NoFrame, NoOutcome, NoOutcome,
                   [depth |-> [t \in {"none"} |-> 0], stdout |-> Console,
                    handle |-> [t \in {"none"} |-> None]])
    /\ ncalls = 0
    /\ written = <<>>
    /\ thr = [k \in Threads |-> IdleThread]
    /\ race = NoRace
    /\ fobj = [t \in Tracers |-> NoObj]

WriteW(text) == Len(written) < MaxWritesW /\ StdoutWrite(text)

NextW == \E text \in FragmentsW : WriteW(text)

SpecW == InitW /\ [][NextW]_vars

\* ==================================================================== claims
IsCall(e)   == e.line.mark = "|--> CALL "
IsReturn(e) == e.line.mark = "|<-- RETURN "
IsError(e)  == e.line.mark = "|<-- ERROR "

\* how many delivered lines of call id satisfy P
LinesOf(id, P(_)) ==
    Cardinality({i \in DOMAIN trace : trace[i].id = id /\ P(trace[i])})

\* a wrapper invocation whose target ran has just been recorded
Completed == last.phase = "exit"

\* C1: when a wrapped call completes, however its target exited, the
\* tracer's depth equals the depth immediately before the call.
C1_DepthRestored ==
    Completed => last.depth1 = last.fr.depth0

\* C2: after a wrapped call that began at depth 0 completes, sys.stdout is
\* the sink that was bound before the call and the tracer holds no file handle.
C2_SinkRestored ==
    (Completed /\ last.fr.depth0 = 0)
        => (last.stdout1 = last.fr.previous_stdout /\ last.handle1 = None)

\* C3: a call whose target raises logs exactly one ERROR line and no RETURN
\* line, and its caller observes the very exception the target raised.
C3_ErrorLogged ==
    (Completed /\ last.target.kind = "raise")
        => /\ LinesOf(last.fr.id, IsError) = 1
           /\ LinesOf(last.fr.id, IsReturn) = 0
           /\ last.result = last.target

\* C4: a call whose target returns v returns v to its caller with exactly one
\* RETURN line and no ERROR line; the wrapper raises only what the target raised.
C4_OutcomeUnaltered ==
    Completed =>
        /\ last.target.kind = "return" =>
               /\ last.result = last.target
               /\ LinesOf(last.fr.id, IsReturn) = 1
               /\ LinesOf(last.fr.id, IsError) = 0
        /\ last.result.kind = "raise" => last.result = last.target

RECURSIVE OpenAfter(_, _)
\* the ids of the CALL lines not yet closed after the first n delivered
\* lines, innermost last; <<0>> once a closing line did not close the
\* innermost open CALL
OpenAfter(tr, n) ==
    IF n = 0 THEN <<>>
    ELSE LET before == OpenAfter(tr, n - 1)
             e      == tr[n]
         IN  IF before = <<0>> THEN <<0>>
             ELSE IF IsCall(e) THEN Append(before, e.id)
             ELSE IF before # <<>> /\ before[Len(before)] = e.id
                  THEN SubSeq(before, 1, Len(before) - 1)
                  ELSE <<0>>

\* C5: the delivered lines obey stack discipline: every RETURN or ERROR line
\* closes the most recently opened CALL that is not yet closed.
C5_StackDiscipline ==
    OpenAfter(trace, Len(trace)) # <<0>>

\* C6: at every CALL line the depth equals the number of calls open through
\* the tracer, and the line is indented by that many "|   " units.
C6_CallDepth ==
    \A i \in DOMAIN trace :
        IsCall(trace[i]) =>
            /\ trace[i].depth = trace[i].open
            /\ trace[i].line.indent = Rep(Unit, trace[i].open)

RECURSIVE Flatten(_)
\* the concatenation of a sequence of fragments
Flatten(ss) == IF ss = <<>> THEN <<>> ELSE Head(ss) \o Flatten(Tail(ss))

\* the prefix of a line written at depth d, character by character:
\* d times "|   ", then "| "
PrefixAt(d) ==
    [i \in 1..(4 * d + 2) |->
        IF i = 4 * d + 2 THEN " "
        ELSE IF i % 4 = 1 THEN "|" ELSE " "]

RECURSIVE Prefixed(_, _, _)
\* the first n characters of text, with the prefix before the first character
\* of every line (the first character of the text, and each one after a newline)
Prefixed(text, d, n) ==
    IF n = 0 THEN <<>>
    ELSE Prefixed(text, d, n - 1)
         \o (IF n = 1 \/ text[n - 1] = NL THEN PrefixAt(d) ELSE <<>>)
         \o <<text[n]>>

\* C7: whatever the fragments, the sink has received the concatenated text
\* with the prefix before the first character of every line that has one,
\* and nothing else.
C7_WriterOutput ==
    \A t \in Single :
        LET text == Flatten(written)
        IN  console = Chars(Prefixed(text, depth[t], Len(text)))

\* C7 witness: a line split over two writes with an empty write between
\* them, ending in a newline that nothing follows, at depth 2
C7_Witness ==
    /\ written = << <<"x">>, <<>>, <<"x", NL>> >>
    /\ depth["A"] = 2
    /\ Len(console) = 4 * 2 + 2 + 3
    /\ at_line_start["A"]

\* the lines delivered while call top was the outermost call on the stack
SessionLines(top) ==
    LET sel == SelectSeq(trace, LAMBDA e : e.top = top)
    IN  [i \in 1..Len(sel) |-> sel[i].line]

\* C8: in file mode, once an outermost call has completed, the file holds
\* exactly the lines logged during that call (the file was truncated when
\* the call began).
C8_FileIsLastSession ==
    \A t \in Single :
        (cfg[t]._output_file_path = GoodPath /\ Completed /\ stack = <<>>)
            => files[t] = SessionLines(last.fr.id)

\* C9: a tracer with a file sink path never has its interceptor bound to
\* sys.stdout, and what running code writes reaches the console as written.
C9_NoInterceptorInFileMode ==
    \A t \in Single :
        cfg[t]._output_file_path # NoFile =>
            /\ sys_stdout # Interceptor(t)
            /\ SelectSeq(console, LAMBDA c : c.src = "write") = Chars(Flatten(written))

\* C9 witness: two nested calls open in file mode after a write of a
\* non-empty fragment
C9_Witness ==
    /\ cfg["A"]._output_file_path = GoodPath
    /\ Len(stack) = 2
    /\ depth["A"] = 2
    /\ _file_handle["A"] = Open
    /\ written # <<>> /\ written[1] # <<>>

\* C10: every trace line goes to the file when a file sink path is
\* configured and to the original console sink otherwise, and that sink is
\* never an interceptor.
C10_OneDestination ==
    \A i \in DOMAIN trace :
        LET e == trace[i]
        IN  /\ original_stdout[e.tr].cls # "IndentedStdout"
            /\ e.dest = IF cfg[e.tr]._output_file_path # NoFile THEN "file" ELSE "console"

\* the Idle state of tracer t: no call counted, interceptor not bound, no file
Idle(t) ==
    /\ depth[t] = 0
    /\ sys_stdout # Interceptor(t)
    /\ _file_handle[t] = None

\* C11: once every invocation of a session has terminated (the call stack is
\* empty again after a target ran), the tracer is back in Idle.
C11_IdleAfterSession ==
    \A t \in Single :
        (Completed /\ last.fr.tr = t /\ stack = <<>>) => Idle(t)

\* C12: in console mode the interceptor becomes sys.stdout only in a step that
\* takes depth from 0 to 1, stops being sys.stdout only in a step that leaves
\* depth at 0, and is bound whenever depth > 0.
C12_InstallAtOutermostOnly ==
    [][\A t \in Single :
         cfg[t]._output_file_path = NoFile =>
            /\ (sys_stdout # Interceptor(t) /\ sys_stdout' = Interceptor(t))
                   => (depth[t] = 0 /\ depth'[t] = 1)
            /\ (sys_stdout = Interceptor(t) /\ sys_stdout' # Interceptor(t))
                   => depth'[t] = 0
            /\ depth'[t] > 0 => sys_stdout' = Interceptor(t)]_vars

\* C13: the file handle is open only with a sink path configured and
\* depth > 0, and it is not closed while a call is still open.
C13_HandleOnlyWhileActive ==
    \A t \in Single :
        /\ _file_handle[t] = Open =>
              (cfg[t]._output_file_path # NoFile /\ depth[t] > 0)
        /\ (cfg[t]._output_file_path = GoodPath /\ stack # <<>>) =>
              _file_handle[t] = Open

\* C14: every RETURN and ERROR line is indented by the depth as it is after
\* the decrement made for its call, which is the indentation of the call's
\* CALL line.
C14_ClosingLineIndent ==
    \A i \in DOMAIN trace :
        (IsReturn(trace[i]) \/ IsError(trace[i])) =>
            /\ trace[i].line.indent = Rep(Unit, trace[i].depth)
            /\ \A j \in DOMAIN trace :
                  (IsCall(trace[j]) /\ trace[j].id = trace[i].id)
                      => trace[j].line.indent = trace[i].line.indent

\* C15: a call that fails before its target is invoked leaves depth,
\* sys.stdout and the file handle as they were before the call.
C15_EntryFailureLeavesState ==
    last.phase = "entry" =>
        /\ last.depth1 = last.fr.depth0
        /\ last.stdout1 = last.fr.previous_stdout
        /\ last.handle1 = last.fr.handle0

\* C16: depth is never negative.
C16_DepthNonNegative ==
    \A t \in Tracers : depth[t] >= 0

\* C17: when a function wrapped by tracer B is called while tracer A's
\* interceptor is sys.stdout, B's call completes with sys.stdout still bound
\* to A's interceptor.
C17_NestedTracerKeepsSink ==
    \A a \in Single, b \in Tracers \ Single :
        (Completed /\ last.fr.tr = b /\ last.fr.previous_stdout = Interceptor(a))
            => last.stdout1 = Interceptor(a)

\* C18: whenever an outermost call begins, the interceptor's at_line_start
\* flag is true.
C18_LineStartAtSessionStart ==
    [][\A t \in Single :
         (stack = <<>> /\ stack' # <<>> /\ stack'[1].tr = t) => at_line_start[t]]_vars

\* a CALL line was logged indented for a depth other than the number of
\* calls open around it on the calling thread's own stack
MiscountedCall == race.miscounted

\* C19: two threads sharing one tracer.  As long as no thread has taken a
\* wrapper step while the other had a call in progress, every CALL line is
\* logged at the depth of the calling thread's own stack and the log file is
\* opened at most once per session; the interleavings of the claim are the
\* ones C19_Witness reaches.
C19_CorruptionNeedsOverlap ==
    ~race.overlap => (~MiscountedCall /\ race.opens <= 1)

\* both corruptions in one overlap: the log file opened (and truncated)
\* twice, and a CALL line whose depth is not that of its own thread's stack
C19_Witness ==
    /\ race.overlap
    /\ race.opens >= 2
    /\ MiscountedCall

====
